---- MODULE Spec2Model ----
(***************************************************************************)
(* Preprocessing of src-tauri/wrapper.h, the include shim that aggregates  *)
(* the two CTP vendor headers for the binding generator.                   *)
(*                                                                         *)
(* The file is modelled line by line (WrapperLines) and run by a small     *)
(* C-preprocessor machine: an include stack of frames, the set of defined  *)
(* macros, the emitted text, the log of executed #include directives and   *)
(* the diagnostics.  The translation unit is a sequence of                 *)
(* #include "wrapper.h" occurrences.  The vendor headers are not part of   *)
(* the repository: they are an input of the run (present and well-formed,  *)
(* missing, or malformed, fatally or not; optionally including wrapper.h   *)
(* back).                                                                  *)
(***************************************************************************)
EXTENDS Naturals, Sequences, FiniteSets

VARIABLES
    macros,     \* the macro names currently defined
    stack,      \* the include stack, innermost file last
    out,        \* the text emitted into the translation unit so far
    includes,   \* the #include directives executed so far: [by, file]
    errs,       \* the diagnostics reported so far
    halted,     \* a fatal diagnostic stopped the run
    tuLeft,     \* #include "wrapper.h" occurrences of the unit still ahead
    incl,       \* how many times wrapper.h has been entered
    fs,         \* the vendor headers on disk (input)
    macros0     \* the macro environment the unit started with (input)

vars == <<macros, stack, out, includes, errs, halted, tuLeft, incl, fs, macros0>>

\* ------------------------------------------------------------------ bounds

\* The most #include "wrapper.h" occurrences in one translation unit.
MaxIncludes == 3

\* The preprocessor's include nesting limit, counted in included files (the
\* unit itself is not on the stack); it stands for the compiler's 200.
MaxDepth == 6

\* ------------------------------------------------------------------- names

Wrapper == "wrapper.h"
MdApi == "thostmduserapi_se.framework/Versions/A/Headers/ThostFtdcMdApi.h"
TraderApi == "thosttraderapi_se.framework/Versions/A/Headers/ThostFtdcTraderApi.h"
VendorHeaders == {MdApi, TraderApi}

WRAPPER_H == "WRAPPER_H"

\* A macro of the surrounding build that has nothing to do with wrapper.h.
OtherMacro == "UNRELATED"

\* The include guard a vendor header uses for itself.
VendorGuard(f) == IF f = MdApi THEN "THOST_FTDCMDAPI_H" ELSE "THOST_FTDCTRADERAPI_H"

\* ------------------------------------------------------------- file lines

L(kind, arg) == [kind |-> kind, arg |-> arg]

Comment == L("comment", "")
Blank == L("blank", "")

\* Mutants of wrapper.h (each a plausible slip in the file).
WrapperLines_NoTrader ==
    << Comment, Comment, Blank,
       L("ifndef", WRAPPER_H), L("define", WRAPPER_H), Blank,
       Comment, L("include", MdApi), Blank,
       Comment, Blank, Blank,
       L("endif", "") >>

WrapperLines_NoEndif ==
    << Comment, Comment, Blank,
       L("ifndef", WRAPPER_H), L("define", WRAPPER_H), Blank,
       Comment, L("include", MdApi), Blank,
       Comment, L("include", TraderApi), Blank,
       Blank >>

WrapperLines_IncludesOutsideGuard ==
    << Comment, Comment, Blank,
       L("ifndef", WRAPPER_H), L("define", WRAPPER_H), L("endif", ""),
       Comment, L("include", MdApi), Blank,
       Comment, L("include", TraderApi), Blank,
       Blank >>

WrapperLines_ExtraDefine ==
    << Comment, Comment, Blank,
       L("ifndef", WRAPPER_H), L("define", WRAPPER_H), L("define", OtherMacro),
       Comment, L("include", MdApi), Blank,
       Comment, L("include", TraderApi), Blank,
       L("endif", "") >>

WrapperLines_Swapped ==
    << Comment, Comment, Blank,
       L("ifndef", WRAPPER_H), L("define", WRAPPER_H), Blank,
       Comment, L("include", TraderApi), Blank,
       Comment, L("include", MdApi), Blank,
       L("endif", "") >>

WrapperLines_NoDefine ==
    << Comment, Comment, Blank,
       L("ifndef", WRAPPER_H), Blank, Blank,
       Comment, L("include", MdApi), Blank,
       Comment, L("include", TraderApi), Blank,
       L("endif", "") >>

WrapperLines_NoGuard ==
    << Comment, Comment, Blank,
       Blank, L("define", WRAPPER_H), Blank,
       Comment, L("include", MdApi), Blank,
       Comment, L("include", TraderApi), Blank,
       Blank >>

WrapperLines_DefineLast ==
    << Comment, Comment, Blank,
       L("ifndef", WRAPPER_H), Blank, Blank,
       Comment, L("include", MdApi), Blank,
       Comment, L("include", TraderApi), L("define", WRAPPER_H),
       L("endif", "") >>

\* wrapper.h, line by line.
WrapperLines ==
    << Comment,                     \*  1  // CTP API C++ header wrapper
       Comment,                     \*  2  // used by bindgen
       Blank,                       \*  3
       L("ifndef", WRAPPER_H),      \*  4  #ifndef WRAPPER_H
       L("define", WRAPPER_H),      \*  5  #define WRAPPER_H
       Blank,                       \*  6
       Comment,                     \*  7  // market data API
       L("include", MdApi),         \*  8  #include ".../ThostFtdcMdApi.h"
       Blank,                       \*  9
       Comment,                     \* 10  // trading API
       L("include", TraderApi),     \* 11  #include ".../ThostFtdcTraderApi.h"
       Blank,                       \* 12
       L("endif", "") >>            \* 13  #endif // WRAPPER_H

\* A vendor header as the run sees it: two pieces of declarations, with or
\* without an include guard of its own around them; a header that includes
\* wrapper.h back does so between the two; a malformed one starts with a
\* line that does not parse, which either is reported and passed over or
\* stops the run (as a nested #include of a file that does not exist does).
VendorLines(f) ==
    (IF fs[f].status = "malformed" THEN << L("bad", "") >>
     ELSE IF fs[f].status = "malformed fatal" THEN << L("bad", "fatal") >>
     ELSE << >>)
    \o (IF fs[f].guard
        THEN << L("ifndef", VendorGuard(f)), L("define", VendorGuard(f)) >>
        ELSE << >>)
    \o << L("text", "1") >>
    \o (IF fs[f].reinc THEN << L("include", Wrapper) >> ELSE << >>)
    \o << L("text", "2") >>
    \o (IF fs[f].guard THEN << L("endif", "") >> ELSE << >>)

Lines(f) == IF f = Wrapper THEN WrapperLines ELSE VendorLines(f)

\* Whether the file an #include names can be opened.
Present(f) == f = Wrapper \/ (f \in VendorHeaders /\ fs[f].status # "missing")

\* ------------------------------------------------------------------ frames

Top == stack[Len(stack)]

\* Whether the frame's current line lies in a taken branch.
Active(fr) == \A i \in 1..Len(fr.conds) : fr.conds[i]

AtLine(fr) == fr.line <= Len(Lines(fr.file))

Cur == Lines(Top.file)[Top.line]

Running == ~halted /\ stack # << >>

\* The frame of a file just entered; id numbers the entries of wrapper.h and
\* wh records whether WRAPPER_H was defined on entry.
NewFrame(f) ==
    [file |-> f, line |-> 1, conds |-> << >>,
     id |-> IF f = Wrapper THEN incl + 1 ELSE 0,
     wh |-> WRAPPER_H \in macros]

Advanced(fr) == [fr EXCEPT !.line = @ + 1]

ReplaceTop(fr) == [stack EXCEPT ![Len(stack)] = fr]

Done == halted \/ (stack = << >> /\ tuLeft = 0)

\* -------------------------------------------------------------------- Init

Statuses == {"ok", "missing", "malformed", "malformed fatal"}

Init ==
    /\ macros0 \in SUBSET {WRAPPER_H, OtherMacro}
    /\ macros = macros0
    /\ fs \in [VendorHeaders -> [status : Statuses, reinc : BOOLEAN, guard : BOOLEAN]]
    /\ tuLeft \in 1..MaxIncludes
    /\ stack = << >>
    /\ out = << >>
    /\ includes = << >>
    /\ errs = {}
    /\ halted = FALSE
    /\ incl = 0

\* ----------------------------------------------------------------- actions

\* The unit's next #include "wrapper.h".
TuInclude ==
    /\ ~halted /\ stack = << >> /\ tuLeft > 0
    /\ tuLeft' = tuLeft - 1
    /\ stack' = << NewFrame(Wrapper) >>
    /\ incl' = incl + 1
    /\ UNCHANGED <<macros, out, includes, errs, halted, fs, macros0>>

\* A comment or an empty line.
StepComment ==
    /\ Running /\ AtLine(Top) /\ Active(Top)
    /\ Cur.kind \in {"comment", "blank"}
    /\ stack' = ReplaceTop(Advanced(Top))
    /\ UNCHANGED <<macros, out, includes, errs, halted, tuLeft, incl, fs, macros0>>

\* Any line but a conditional directive inside a branch not taken.
StepSkipped ==
    /\ Running /\ AtLine(Top) /\ ~Active(Top)
    /\ Cur.kind \notin {"ifndef", "endif"}
    /\ stack' = ReplaceTop(Advanced(Top))
    /\ UNCHANGED <<macros, out, includes, errs, halted, tuLeft, incl, fs, macros0>>

\* #ifndef NAME
StepIfndef ==
    /\ Running /\ AtLine(Top)
    /\ Cur.kind = "ifndef"
    /\ stack' = ReplaceTop(
            [Advanced(Top) EXCEPT
                !.conds = Append(@, Active(Top) /\ Cur.arg \notin macros)])
    /\ UNCHANGED <<macros, out, includes, errs, halted, tuLeft, incl, fs, macros0>>

\* #define NAME
StepDefine ==
    /\ Running /\ AtLine(Top) /\ Active(Top)
    /\ Cur.kind = "define"
    /\ macros' = macros \cup {Cur.arg}
    /\ stack' = ReplaceTop(Advanced(Top))
    /\ UNCHANGED <<out, includes, errs, halted, tuLeft, incl, fs, macros0>>

\* #include "FILE"
StepInclude ==
    /\ Running /\ AtLine(Top) /\ Active(Top)
    /\ Cur.kind = "include"
    /\ IF Len(stack) >= MaxDepth
       THEN \* an ordinary error: the directive is rejected before the file is
            \* looked up, it is not executed, and the run goes on
            /\ errs' = errs \cup {"nested too deeply"}
            /\ stack' = ReplaceTop(Advanced(Top))
            /\ UNCHANGED <<includes, halted, incl>>
       ELSE IF ~Present(Cur.arg)
       THEN /\ includes' = Append(includes, [by |-> Top.file, file |-> Cur.arg])
            /\ errs' = errs \cup {"file not found"}
            /\ halted' = TRUE
            /\ UNCHANGED <<stack, incl>>
       ELSE /\ includes' = Append(includes, [by |-> Top.file, file |-> Cur.arg])
            /\ stack' = Append(ReplaceTop(Advanced(Top)), NewFrame(Cur.arg))
            /\ incl' = IF Cur.arg = Wrapper THEN incl + 1 ELSE incl
            /\ UNCHANGED <<errs, halted>>
    /\ UNCHANGED <<macros, out, tuLeft, fs, macros0>>

\* #endif
StepEndif ==
    /\ Running /\ AtLine(Top)
    /\ Cur.kind = "endif"
    /\ IF Top.conds = << >>
       THEN /\ errs' = errs \cup {"#endif without #if"}
            /\ stack' = ReplaceTop(Advanced(Top))
       ELSE /\ stack' = ReplaceTop(
                    [Advanced(Top) EXCEPT !.conds = SubSeq(@, 1, Len(@) - 1)])
            /\ UNCHANGED errs
    /\ UNCHANGED <<macros, out, includes, halted, tuLeft, incl, fs, macros0>>

\* Declarations: text that goes into the translation unit.
StepText ==
    /\ Running /\ AtLine(Top) /\ Active(Top)
    /\ Cur.kind = "text"
    /\ out' = Append(out, [file |-> Top.file, text |-> Cur.arg])
    /\ stack' = ReplaceTop(Advanced(Top))
    /\ UNCHANGED <<macros, includes, errs, halted, tuLeft, incl, fs, macros0>>

\* A line that does not parse: an error is reported, and the run goes on
\* unless the error is a fatal one.
StepBad ==
    /\ Running /\ AtLine(Top) /\ Active(Top)
    /\ Cur.kind = "bad"
    /\ errs' = errs \cup {"malformed"}
    /\ IF Cur.arg = "fatal"
       THEN halted' = TRUE /\ UNCHANGED stack
       ELSE stack' = ReplaceTop(Advanced(Top)) /\ UNCHANGED halted
    /\ UNCHANGED <<macros, out, includes, tuLeft, incl, fs, macros0>>

\* The end of the current file: back to the file that included it.
StepEof ==
    /\ Running /\ ~AtLine(Top)
    /\ errs' = IF Top.conds # << >> THEN errs \cup {"unterminated conditional"}
                                    ELSE errs
    /\ stack' = SubSeq(stack, 1, Len(stack) - 1)
    /\ UNCHANGED <<macros, out, includes, halted, tuLeft, incl, fs, macros0>>

Next ==
    \/ TuInclude
    \/ StepComment
    \/ StepSkipped
    \/ StepIfndef
    \/ StepDefine
    \/ StepInclude
    \/ StepEndif
    \/ StepText
    \/ StepBad
    \/ StepEof

Spec == Init /\ [][Next]_vars

\* The preprocessor runs to the end of its input.
FairSpec == Spec /\ WF_vars(Next)

\* ------------------------------------------------------------------ claims

BothOk == \A f \in VendorHeaders : fs[f].status = "ok"

GuardOpen == WRAPPER_H \notin macros0

\* The headers named by the #include directives wrapper.h itself executed.
DirectIncludes ==
    { includes[i].file : i \in { j \in 1..Len(includes) : includes[j].by = Wrapper } }

\* How often wrapper.h itself executed an #include of f.
TimesIncluded(f) ==
    Cardinality({ i \in 1..Len(includes) :
                    includes[i].by = Wrapper /\ includes[i].file = f })

\* The first #include "wrapper.h" of the unit has been processed to its end.
FirstInclusionOver == incl >= 1 /\ (stack = << >> \/ stack[1].id > 1)

InWrapper == stack # << >> /\ Top.file = Wrapper

Unit == <<out, macros, includes, errs, halted>>

AllContent ==
    << [file |-> MdApi, text |-> "1"], [file |-> MdApi, text |-> "2"],
       [file |-> TraderApi, text |-> "1"], [file |-> TraderApi, text |-> "2"] >>

\* Both vendor headers can be opened (well-formed or not).
BothPresent == \A f \in VendorHeaders : Present(f)

\* wrapper.h has been included and the run has left it, by reaching its end
\* or by a fatal error.
InclusionEnded == incl >= 1 /\ (stack = << >> \/ halted)

\* C1 as stated: included with WRAPPER_H undefined and both vendor headers
\* present, wrapper.h itself includes exactly the market-data header and the
\* trading header.
C1_Original ==
    (GuardOpen /\ BothPresent /\ InclusionEnded) => DirectIncludes = VendorHeaders

\* C1 as amended: wrapper.h never includes anything but the two vendor
\* headers; included with WRAPPER_H undefined and both vendor headers
\* present, it includes the market-data header, and it includes exactly the
\* two unless the market-data header stops the run with a fatal error.
C1_ExactlyTwoHeaders ==
    /\ DirectIncludes \subseteq VendorHeaders
    /\ (GuardOpen /\ BothPresent /\ InclusionEnded) => MdApi \in DirectIncludes
    /\ (GuardOpen /\ BothPresent /\ InclusionEnded
            /\ fs[MdApi].status # "malformed fatal")
            => DirectIncludes = VendorHeaders

C1_Witness ==
    /\ GuardOpen /\ InclusionEnded
    /\ fs[MdApi].status = "malformed" /\ fs[TraderApi].status = "malformed fatal"
    /\ includes = << [by |-> Wrapper, file |-> MdApi],
                     [by |-> Wrapper, file |-> TraderApi] >>

\* C2: with both vendor headers present and well-formed, preprocessing of
\* wrapper.h reports no error at any point and runs to completion, whatever
\* the initial macro environment.
C2_ParsesWhenBothPresent ==
    /\ [](BothOk => (errs = {} /\ ~halted))
    /\ (BothOk ~> (Done /\ errs = {} /\ stack = << >>))

C2_Witness ==
    /\ BothOk /\ Done /\ errs = {} /\ stack = << >>
    /\ OtherMacro \in macros0 /\ GuardOpen
    /\ out = AllContent

\* C3 as stated: the run ends in an error exactly when a vendor header is
\* missing or malformed.
C3_Original == Done => (errs # {} <=> ~BothOk)

\* C3 as amended: an error is reported only when a vendor header is missing
\* or malformed and WRAPPER_H was not defined beforehand, and in that case
\* the finished run always has reported one.
C3_ErrorIffBadHeaderAndGuardOpen ==
    /\ errs # {} => (~BothOk /\ GuardOpen)
    /\ (Done /\ ~BothOk /\ GuardOpen) => errs # {}

C3_Witness ==
    /\ Done /\ GuardOpen
    /\ fs[MdApi].status = "ok" /\ fs[TraderApi].status = "missing"
    /\ errs = {"file not found"}

\* C4: wrapper.h holds only preprocessor directives, comments and empty
\* lines; no step taken in wrapper.h emits text, and the only change such a
\* step makes to the macro environment is defining WRAPPER_H.
C4_Step ==
    /\ \A i \in 1..Len(WrapperLines) :
            WrapperLines[i].kind \in
                {"comment", "blank", "ifndef", "define", "include", "endif"}
    /\ InWrapper =>
            /\ out' = out
            /\ macros \subseteq macros'
            /\ macros' \ macros \subseteq {WRAPPER_H}
    /\ \A i \in 1..Len(out') : out'[i].file # Wrapper

C4_ContributesOnlyItsGuard == [][C4_Step]_vars

C4_Witness ==
    /\ Done /\ stack = << >> /\ errs = {}
    /\ WRAPPER_H \in macros \ macros0
    /\ out # << >>

\* C6: the text emitted consists of vendor-header content only, all of the
\* market-data header's content precedes any of the trading header's, the
\* trading header's content begins only after the market-data header's is
\* complete, and a successful inclusion that emits content emits exactly
\* market-data content followed by trading content.
C6_MdBeforeTrader ==
    /\ \A i \in 1..Len(out) : out[i].file \in VendorHeaders
    /\ \A i, j \in 1..Len(out) :
            (out[i].file = TraderApi /\ out[j].file = MdApi) => j < i
    /\ (\E i \in 1..Len(out) : out[i].file = TraderApi)
            => (Len(out) >= 2 /\ SubSeq(out, 1, 2) = SubSeq(AllContent, 1, 2))
    /\ (Done /\ errs = {} /\ out # << >>) => out = AllContent

C6_Witness ==
    /\ out = AllContent
    /\ InWrapper /\ Top.line = 12

\* C7: each vendor header is included by wrapper.h at most once per unit,
\* every entry of wrapper.h after the first changes nothing, and once the
\* first #include "wrapper.h" is over the unit stays as it is, however many
\* more follow.
C7_Step ==
    /\ \A f \in VendorHeaders : TimesIncluded(f)' <= 1
    /\ (InWrapper /\ Top.id > 1) => UNCHANGED Unit
    /\ FirstInclusionOver => UNCHANGED Unit

C7_Idempotent == [][C7_Step]_vars

C7_Witness ==
    /\ Done /\ stack = << >> /\ incl = 3
    /\ GuardOpen /\ BothOk
    /\ out = AllContent

\* C8: a step in wrapper.h entered with WRAPPER_H already defined executes
\* no #include, emits nothing, leaves the macro environment unchanged and
\* reports no error, whatever the state of the vendor headers.
C8_Step == (InWrapper /\ Top.wh) => UNCHANGED Unit

C8_GuardedInclusionIsEmpty == [][C8_Step]_vars

C8_Witness ==
    /\ Done /\ ~halted /\ ~GuardOpen /\ incl >= 1
    /\ \A f \in VendorHeaders : fs[f].status = "missing"
    /\ out = << >> /\ includes = << >> /\ macros = macros0 /\ errs = {}

\* C9: whenever a vendor header is being processed WRAPPER_H is defined, a
\* wrapper.h entered from a vendor header finds WRAPPER_H defined, the
\* include stack never grows past unit -> wrapper.h -> vendor -> wrapper.h,
\* the nesting limit is never hit, and the run terminates.
C9_Safe ==
    /\ (stack # << >> /\ Top.file \in VendorHeaders) => WRAPPER_H \in macros
    /\ \A i \in 2..Len(stack) : stack[i].file = Wrapper => stack[i].wh
    /\ Len(stack) <= 3
    /\ "nested too deeply" \notin errs

C9_GuardDefinedFirst == []C9_Safe /\ <>Done

C9_Witness ==
    /\ Len(stack) = 3 /\ Top.file = Wrapper /\ Top.wh /\ ~AtLine(Top)
    /\ stack[2].file = MdApi
    /\ GuardOpen

====
